---- MODULE Spec2Model ----
(***************************************************************************)
(* Model of the `micro debug stats` handler (debug/stats/handler): the     *)
(* instance directory refreshed by scan, the scrape loop with its per-node *)
(* goroutines, the published snapshots, the history ring and Read.         *)
(*                                                                         *)
(* Abstractions, stated once:                                              *)
(*  - a registry.Node is [id, protocol]; its Address is carried by id and  *)
(*    Metadata["protocol"] by protocol;                                    *)
(*  - a stats.Snapshot is [name, version, id, ts]; the counters copied     *)
(*    from the response (Started, Uptime, ...) do not influence control    *)
(*    flow and are left out; ts is the poller's clock at capture;          *)
(*  - the poller's clock `now` is time.Now().Unix(), in seconds: it       *)
(*    advances in time.Sleep(time.Second) of the scrape loop and, up to    *)
(*    MaxNow, while a call of a tick is out (it is read when a call has    *)
(*    returned);                                                           *)
(*  - util/ring (an imported package, not part of the sources) is modelled *)
(*    from the specification of the History Ring.                          *)
(***************************************************************************)
EXTENDS Integers, Sequences, FiniteSets, TLC

\* ------------------------------------------------------------------ bounds
\* scrape ticks the model lets the loop run
MaxTicks == 2
\* largest windowSize handed to New
MaxWindowSize == 2
\* firings of the refresh ticker the model lets happen
MaxScans == 1
\* requests the store handler serves at the same time
MaxClients == 2
\* the clock second up to which time passes while calls are out
MaxNow == 2

\* ------------------------------------------------------- program constants
\* s.historicalSnapshots.Get(3600) in Read
ReadWindow == 3600

\* s.client.String(): the transport of the configured client
Protocol == "mucp"

\* --------------------------------------------------------- registry universe
Node(id, proto) == [id |-> id, protocol |-> proto]
Service(name, version, nodes) == [name |-> name, version |-> version, nodes |-> nodes]

N1 == Node("n1", "mucp")
N2 == Node("n2", "mucp")
N4 == Node("n4", "grpc")

\* what registry.ListServices may return when it succeeds
Listings ==
  { << >>,
    << Service("svcA", "v1", <<N1, N2>>) >>,
    << Service("svcA", "v1", <<N1, N4>>), Service("svcA", "v2", <<N2>>) >>,
    << Service("svcA", "v1", << >>) >> }

\* what registry.GetService(name) may return when it succeeds
GetServiceResults(name) ==
  IF name = "svcA"
    THEN { << Service("svcA", "v1", <<N1, N4>>), Service("svcA", "v2", <<N2>>) >> }
    ELSE { << >> }

\* a registry operation returns (services, err)
Ok(list) == [err |-> FALSE, list |-> list]
Failed == [err |-> TRUE, list |-> << >>]

\* the outcomes of registry.ListServices
ListResults == {Ok(l) : l \in Listings} \cup {Failed}

\* ------------------------------------------------------------- error values
\* the error a call has returned: nil, or an error with id, code and detail
Nil == [returned |-> TRUE, isNil |-> TRUE, id |-> "", code |-> 0, detail |-> ""]

\* no call has returned yet
NoCall == [returned |-> FALSE, isNil |-> TRUE, id |-> "", code |-> 0, detail |-> ""]

\* an error value
ErrorValue(id, code, detail) ==
  [returned |-> TRUE, isNil |-> FALSE, id |-> id, code |-> code, detail |-> detail]

\* errors.BadRequest(id, format): an error of the bad-request class (400)
BadRequest(id, detail) == ErrorValue(id, 400, detail)

\* the err of a failed registry.ListServices, handed on by scan
ListErr == ErrorValue("", 0, "registry error")

\* ---------------------------------------------------------------- ring
\* ring.New(i)
RingNew(i) == [size |-> i, vals |-> << >>]

\* Buffer.Put(v): insert the newest entry, dropping the oldest once full
RingPut(b, v) ==
  LET vals == Append(b.vals, [Value |-> v])
  IN  [b EXCEPT !.vals = IF Len(vals) > b.size THEN Tail(vals) ELSE vals]

\* Buffer.Get(n): the last n entries, oldest first; all of them if fewer
RingGet(b, n) ==
  LET k == IF n > Len(b.vals) THEN Len(b.vals) ELSE n
  IN  SubSeq(b.vals, Len(b.vals) - k + 1, Len(b.vals))

\* ---------------------------------------------------------------- scan
\* serviceMap[k] = v
MapPut(m, k, v) == [x \in DOMAIN m \cup {k} |-> IF x = k THEN v ELSE m[x]]

\* mutant: the key also names the first node
ServiceKeyWithNode(service) ==
  service.name \o service.version \o
    (IF service.nodes = << >> THEN "" ELSE service.nodes[1].id)

\* serviceMap[service.Name+service.Version] = service
ServiceKey(service) == service.name \o service.version

RECURSIVE StoreByVersion(_, _, _)
\* for _, service := range newServices { serviceMap[key] = service }
StoreByVersion(m, newServices, i) ==
  IF i > Len(newServices) THEN m
  ELSE StoreByVersion(MapPut(m, ServiceKey(newServices[i]), newServices[i]),
                      newServices, i + 1)

RECURSIVE ScanMap(_, _, _, _)
\* the loop of scan over the listed services; getRes[i] is what GetService
\* returns for the i-th listed service when that one has no nodes
ScanMap(m, services, getRes, i) ==
  IF i > Len(services) THEN m
  ELSE LET service == services[i] IN
       IF Len(service.nodes) > 0
         THEN ScanMap(MapPut(m, ServiceKey(service), service), services, getRes, i + 1)
       ELSE IF getRes[i].err
         THEN ScanMap(m, services, getRes, i + 1)
       ELSE ScanMap(StoreByVersion(m, getRes[i].list, 1), services, getRes, i + 1)

\* the listed services that come without nodes
Nodeless(services) == {i \in DOMAIN services : Len(services[i].nodes) = 0}

\* the results GetService can give to the follow-up lookups of one scan
GetResChoices(services) ==
  { g \in [Nodeless(services) ->
               {Ok(l) : l \in UNION {GetServiceResults(services[i].name) :
                                       i \in Nodeless(services)}} \cup {Failed}] :
      \A i \in Nodeless(services) :
         g[i].err \/ g[i].list \in GetServiceResults(services[i].name) }

\* flattening the map: Go ranges over a map in no fixed order
Flattenings(m) ==
  LET n == Cardinality(DOMAIN m)
  IN  { [i \in 1..n |-> m[p[i]]] :
          p \in {q \in [1..n -> DOMAIN m] : \A i, j \in 1..n : i # j => q[i] # q[j]} }

\* -------------------------------------------------------------- scrape
\* mutant: the protocol of a node is not looked at
EligibleTasksAnyProtocol(services) ==
  UNION { { <<i, j>> : j \in DOMAIN services[i].nodes } : i \in DOMAIN services }

\* the (service, node) positions of the copy that scrape calls
EligibleTasks(services) ==
  UNION { { <<i, j>> : j \in {k \in DOMAIN services[i].nodes :
                                 services[i].nodes[k].protocol = Protocol} } :
          i \in DOMAIN services }

\* the snapshot a goroutine builds from a successful call
Snap(service, node, ts) ==
  [name |-> service.name, version |-> service.version, id |-> node.id, ts |-> ts]

\* mutant: wg.Add is missing, so wg.Wait returns at once
WaitDoneNoAdd(tasks) == TRUE

\* mutant: wg.Done is not deferred, a goroutine that returns on an error
\* never calls it
WaitDoneAnsweredOnly(tasks) == \A t \in DOMAIN tasks : tasks[t].st = "done"

\* wg.Wait(): every goroutine of the tick has called wg.Done
WaitDone(tasks) == \A t \in DOMAIN tasks : tasks[t].st \in {"failed", "done"}

\* mutant: an empty batch is not swapped in
SwapInNonEmpty(snapshots, next) == IF next = << >> THEN snapshots ELSE next

\* s.snapshots = next
SwapIn(snapshots, next) == next

\* mutant: an empty batch is not recorded
PutHistoryNonEmpty(hist, next) == IF next = << >> THEN hist ELSE RingPut(hist, next)

\* s.historicalSnapshots.Put(next)
PutHistory(hist, next) == RingPut(hist, next)

\* mutant: the ring is built one slot too large
NewHistoryOffByOne(w) == RingNew(w + 1)

\* historicalSnapshots: ring.New(windowSize)
NewHistory(w) == RingNew(w)

\* ------------------------------------------------------------------ state
VARIABLES
  phase,      \* "new" before New, "running" after it, "failed" if New failed
  windowSize, \* the windowSize New was called with
  done,       \* the done channel is closed
  cached,     \* s.cached
  snapshots,  \* s.snapshots
  hist,       \* s.historicalSnapshots
  putLog,     \* history: the batches handed to Put, in order
  rwWriter,   \* holder of the write side of s.RWMutex, or "none"
  rwReaders,  \* holders of the read side of s.RWMutex
  scrPc,      \* position of the scrape loop
  services,   \* scrape's local copy of s.cached
  tasks,      \* the goroutines of the tick: <<i, j>> -> [st, ts, base]
  next,       \* scrape's accumulator
  mtx,        \* holder of scrape's local mutex, or << >>
  now,        \* the poller's clock, in seconds
  ticks,      \* completed scrape ticks
  scanPc,     \* position of the refresh loop
  scanList,   \* scan's local serviceList
  scans,      \* firings of the refresh ticker so far
  rdPc,       \* position of a Read call
  rdReq,      \* its request
  rdAll,      \* its local allSnapshots
  rdRsp,      \* rsp.Stats
  okLog,      \* history: per tick, the nodes whose call returned no error
  rdErr,      \* the error Read returned
  rdPubs,     \* history: the batches published when Read collected
  rdPrev,     \* the response of an earlier Read its caller has kept
  rpcErr,     \* the error the last Write or Stream returned
  scanErr,    \* what the last scan returned
  scanOpFailed, \* history: a registry operation of the last scan failed
  stLock,     \* store handler: the request holding s.Lock(), or 0
  stStores,   \* store handler: s.Stores, key -> store
  stNew,      \* history: calls of s.New so far, per (namespace, prefix)
  stReq       \* store handler: the requests in progress, client -> [pc, op, md, st]

\* the state of the stats handler
statsVars == << phase, windowSize, done, cached, snapshots, hist, putLog, rwWriter, rwReaders,
                scrPc, services, tasks, next, mtx, now, ticks, scanPc, scanList, scans,
                rdPc, rdReq, rdAll, rdRsp, okLog, rdErr, rdPubs, rdPrev, rpcErr, scanErr,
                scanOpFailed >>

\* the state of the store handler
storeVars == << stLock, stStores, stNew, stReq >>

vars == << statsVars, storeVars >>

scrapeVars == << scrPc, services, tasks, next, mtx, now, ticks >>
scanVars == << scanPc, scanList, scans, scanErr, scanOpFailed >>
readVars == << rdPc, rdReq, rdAll, rdRsp, rdErr, rdPubs, rdPrev >>
lockVars == << rwWriter, rwReaders >>

NoTask == << >>

\* no Read in progress
NoRequest == [past |-> FALSE, hasService |-> FALSE, name |-> "", version |-> ""]

\* the caller has kept no response
NoPrev == [req |-> NoRequest, rsp |-> << >>, pubs |-> -1]

\* ------------------------------------------------- store handler: values
\* the requests the store handler serves at the same time
Clients == 1..MaxClients

\* the handlers of the store service; each begins with s.get(ctx)
Handlers == {"Read", "Write", "Delete", "List"}

\* values of the Micro-Namespace and Micro-Prefix metadata of a request
Namespaces == {"", "a", "a:"}
Prefixes == {"", ":"}
StorePairs == Namespaces \X Prefixes

\* metadata.FromContext(ctx): ok is false when the context has no metadata;
\* a key the metadata lacks reads as the empty string
NoMetadata == [ok |-> FALSE, namespace |-> "", prefix |-> ""]
Metadata(namespace, prefix) == [ok |-> TRUE, namespace |-> namespace, prefix |-> prefix]
Contexts == {NoMetadata} \cup {Metadata(p[1], p[2]) : p \in StorePairs}

\* s.Default
DefaultStore == [default |-> TRUE, namespace |-> "", prefix |-> "", n |-> 0]
\* no store yet
NoStore == [default |-> FALSE, namespace |-> "", prefix |-> "", n |-> 0]
\* the store the n-th call s.New(namespace, prefix) returns
NewStore(namespace, prefix, n) ==
  [default |-> FALSE, namespace |-> namespace, prefix |-> prefix, n |-> n]

\* no request of this client in progress
IdleRequest == [pc |-> "idle", op |-> "", md |-> NoMetadata, st |-> NoStore]

\* the store handler before its first request: no store created
StoreInit ==
  /\ stLock = 0
  /\ stStores = << >>
  /\ stNew = [p \in StorePairs |-> 0]
  /\ stReq = [c \in Clients |-> IdleRequest]

Init ==
  /\ StoreInit
  /\ phase = "new"
  /\ windowSize = 0
  /\ done = FALSE
  /\ cached = << >>
  /\ snapshots = << >>
  /\ hist = RingNew(0)
  /\ putLog = << >>
  /\ rwWriter = "none"
  /\ rwReaders = {}
  /\ scrPc = "loop"
  /\ services = << >>
  /\ tasks = << >>
  /\ next = << >>
  /\ mtx = NoTask
  /\ now = 1
  /\ ticks = 0
  /\ scanPc = "wait"
  /\ scanList = << >>
  /\ scans = 0
  /\ rdPc = "idle"
  /\ rdReq = NoRequest
  /\ rdAll = << >>
  /\ rdRsp = << >>
  /\ rdErr = NoCall
  /\ rdPubs = 0
  /\ rdPrev = NoPrev
  /\ rpcErr = NoCall
  /\ scanErr = NoCall
  /\ scanOpFailed = FALSE
  /\ okLog = << >>

\* ------------------------------------------------------------- s.RWMutex
\* mutant: the read lock is kept
RUnlockMissing(readers, who) == readers

\* s.RUnlock() by `who`
RUnlock(readers, who) == readers \ {who}

\* mutant: the writer does not wait for the readers
CanLockWriteOverReaders(writer, readers) == writer = "none"

\* s.Lock() returns when nobody holds the write side or the read side
CanLockWrite(writer, readers) == writer = "none" /\ readers = {}

\* mutant: a reader does not wait for the writer
CanRLockOverWriter(writer) == TRUE

\* s.RLock() returns when nobody holds the write side
CanRLock(writer) == writer = "none"

\* ------------------------------------------------------- New, Start, scan
\* a follow-up GetService of the scan returned an error
GetFailed(getRes) == \E i \in DOMAIN getRes : getRes[i].err

\* mutant: the loops are started whatever the first scan returned
NewPhaseIgnoreErr(err) == "running"

\* New: if err := s.scan(); err != nil { return nil, err }; s.Start(done)
NewPhase(err) == IF err THEN "failed" ELSE "running"

\* New: the first scan decides; on success both loops are started
New(w, listed, getRes) ==
  /\ phase = "new"
  /\ ~listed.err
  /\ \E list \in Flattenings(ScanMap(<< >>, listed.list, getRes, 1)) :
        cached' = list
  /\ hist' = NewHistory(w)
  /\ windowSize' = w
  /\ phase' = NewPhase(listed.err)
  /\ scanErr' = Nil
  /\ scanOpFailed' = GetFailed(getRes)
  /\ UNCHANGED << storeVars, rpcErr, done, snapshots, putLog, lockVars, scrapeVars, scanPc, scanList, scans,
                  readVars, okLog >>

\* New when ListServices of the first scan fails: return nil, err
NewFails(listed) ==
  /\ phase = "new"
  /\ listed.err
  /\ phase' = NewPhase(listed.err)
  /\ scanErr' = ListErr
  /\ scanOpFailed' = TRUE
  /\ UNCHANGED << storeVars, rpcErr, windowSize, done, cached, snapshots, hist, putLog, lockVars, scrapeVars,
                  scanPc, scanList, scans, readVars, okLog >>

\* mutant: the loops do not look at the done channel
DoneNeverReady(d) == FALSE

\* select: case <-done can proceed once the channel is closed
DoneReady(d) == d

\* the owner of the done channel closes it
CloseDone ==
  /\ phase = "running"
  /\ ~done
  /\ done' = TRUE
  /\ UNCHANGED << storeVars, rpcErr, phase, windowSize, cached, snapshots, hist, putLog, lockVars, scrapeVars, scanVars,
                  readVars, okLog >>

\* refresh loop, case <-t.C: scan up to s.Lock(); a failed ListServices is
\* logged and the loop waits for the next tick of the ticker
ScanTick(listed, getRes) ==
  /\ phase = "running"
  /\ scanPc = "wait"
  /\ scans < MaxScans
  /\ scans' = scans + 1
  /\ \/ /\ listed.err
        /\ scanErr' = ListErr
        /\ scanOpFailed' = TRUE
        /\ UNCHANGED << scanPc, scanList >>
     \/ /\ ~listed.err
        /\ \E list \in Flattenings(ScanMap(<< >>, listed.list, getRes, 1)) :
              scanList' = list
        /\ scanOpFailed' = GetFailed(getRes)
        /\ scanPc' = "lock"
        /\ UNCHANGED scanErr
  /\ UNCHANGED << storeVars, rpcErr, phase, windowSize, done, cached, snapshots, hist, putLog, lockVars, scrapeVars,
                  readVars, okLog >>

\* scan: s.Lock()
ScanLock ==
  /\ scanPc = "lock"
  /\ CanLockWrite(rwWriter, rwReaders)
  /\ rwWriter' = "scan"
  /\ scanPc' = "store"
  /\ UNCHANGED << storeVars, rpcErr, phase, windowSize, done, cached, snapshots, hist, putLog, rwReaders, scrapeVars,
                  scanList, scans, scanErr, scanOpFailed, readVars, okLog >>

\* scan: s.cached = serviceList; s.Unlock(); return nil
ScanStore ==
  /\ scanPc = "store"
  /\ cached' = scanList
  /\ rwWriter' = "none"
  /\ scanPc' = "wait"
  /\ scanErr' = Nil
  /\ UNCHANGED << storeVars, rpcErr, phase, windowSize, done, snapshots, hist, putLog, rwReaders, scrapeVars, scanList,
                  scans, scanOpFailed, readVars, okLog >>

\* refresh loop, case <-done: return
ScanExit ==
  /\ phase = "running"
  /\ scanPc = "wait"
  /\ DoneReady(done)
  /\ scanPc' = "stopped"
  /\ UNCHANGED << storeVars, rpcErr, phase, windowSize, done, cached, snapshots, hist, putLog, lockVars, scrapeVars,
                  scanList, scans, scanErr, scanOpFailed, readVars, okLog >>

\* ------------------------------------------------------------ scrape loop
\* scrape loop, case <-done: return
ScrapeExit ==
  /\ phase = "running"
  /\ scrPc = "loop"
  /\ DoneReady(done)
  /\ scrPc' = "stopped"
  /\ UNCHANGED << storeVars, rpcErr, phase, windowSize, done, cached, snapshots, hist, putLog, lockVars, services, tasks,
                  next, mtx, now, ticks, scanVars, readVars, okLog >>

\* scrape loop, default: no case of the select is ready, s.scrape() is called
ScrapeDefault ==
  /\ phase = "running"
  /\ scrPc = "loop"
  /\ ~DoneReady(done)
  /\ ticks < MaxTicks
  /\ scrPc' = "scrape"
  /\ UNCHANGED << storeVars, rpcErr, phase, windowSize, done, cached, snapshots, hist, putLog, lockVars,
                  services, tasks, next, mtx, now, ticks, scanVars, readVars, okLog >>

\* scrape: s.RLock()
ScrapeRLock ==
  /\ scrPc = "scrape"
  /\ CanRLock(rwWriter)
  /\ rwReaders' = rwReaders \cup {"scrape"}
  /\ scrPc' = "rlocked"
  /\ UNCHANGED << storeVars, rpcErr, phase, windowSize, done, cached, snapshots, hist, putLog, rwWriter, services, tasks,
                  next, mtx, now, ticks, scanVars, readVars, okLog >>

\* scrape: copy(services, s.cached); s.RUnlock(); next := make(...); one
\* goroutine per eligible node of the copy; then wg.Wait() is entered
ScrapeLaunch ==
  /\ scrPc = "rlocked"
  /\ services' = cached
  /\ rwReaders' = RUnlock(rwReaders, "scrape")
  /\ next' = << >>
  /\ mtx' = NoTask
  /\ tasks' = [t \in EligibleTasks(cached) |->
                 [st |-> "calling", ts |-> 0, base |-> << >>]]
  /\ okLog' = Append(okLog, {})
  /\ scrPc' = "wait"
  /\ UNCHANGED << storeVars, rpcErr, phase, windowSize, done, cached, snapshots, hist, putLog, rwWriter, now, ticks,
                  scanVars, readVars >>

\* the node a goroutine was started for
TaskService(t) == services[t[1]]
TaskNode(t) == services[t[1]].nodes[t[2]]
TaskIdent(t) ==
  [name |-> TaskService(t).name, version |-> TaskService(t).version, id |-> TaskNode(t).id]

\* mutant: the return after the logged error is missing
AfterCallNoReturn(err, ts) == [st |-> "stamped", ts |-> ts]

\* goroutine: what follows s.client.Call: on an error log and return (the
\* deferred wg.Done runs), otherwise build the snapshot and stamp it with
\* time.Now().Unix()
AfterCall(err, ts) ==
  IF err THEN [st |-> "failed", ts |-> 0] ELSE [st |-> "stamped", ts |-> ts]

\* mutant: the accumulator is appended to without its mutex
CanLockAlways(m) == TRUE

\* mtx.Lock() returns when no goroutine holds the mutex
CanLock(m) == m = NoTask

\* next = append(next, snap) begins by reading next: a goroutine that goes on
\* behind mtx.Lock() has read the accumulator as it is then
Loaded(r, nxt) == [st |-> "locked", ts |-> r.ts, base |-> nxt]

\* goroutine: s.client.Call returns an error: log, return, wg.Done
TaskCallFails(t) ==
  /\ t \in DOMAIN tasks
  /\ tasks[t].st = "calling"
  /\ tasks' = [tasks EXCEPT ![t] = [st |-> AfterCall(TRUE, now).st,
                                    ts |-> AfterCall(TRUE, now).ts, base |-> << >>]]
  /\ UNCHANGED << storeVars, rpcErr, phase, windowSize, done, cached, snapshots, hist, putLog, lockVars, scrPc, services,
                  next, mtx, now, ticks, scanVars, readVars, okLog >>

\* the seconds that can have passed on the clock since it was last read,
\* when a call returns (a call takes up to its 2 s deadline)
Elapsed == {0} \cup {d \in 1..2 : now + d <= MaxNow}

\* goroutine: s.client.Call returns a response, d seconds after the clock
\* was last read; the snapshot is built and stamped with time.Now().Unix()
\* (local to the goroutine)
TaskCallReturns(t, d) ==
  /\ t \in DOMAIN tasks
  /\ tasks[t].st = "calling"
  /\ now' = now + d
  /\ tasks' = [tasks EXCEPT ![t] = [st |-> AfterCall(FALSE, now + d).st,
                                    ts |-> AfterCall(FALSE, now + d).ts, base |-> << >>]]
  /\ okLog' = [okLog EXCEPT ![Len(okLog)] = @ \cup {TaskIdent(t)}]
  /\ UNCHANGED << storeVars, rpcErr, phase, windowSize, done, cached, snapshots, hist, putLog, lockVars, scrPc, services,
                  next, mtx, ticks, scanVars, readVars >>

\* goroutine: mtx.Lock() is acquired and next is read
TaskLock(t) ==
  /\ t \in DOMAIN tasks
  /\ tasks[t].st = "stamped"
  /\ CanLock(mtx)
  /\ tasks' = [tasks EXCEPT ![t] = Loaded(tasks[t], next)]
  /\ mtx' = t
  /\ UNCHANGED << storeVars, rpcErr, phase, windowSize, done, cached, snapshots, hist, putLog, lockVars, scrPc, services,
                  next, now, ticks, scanVars, readVars, okLog >>

\* next = append(next, snap)
AppendSnap(nxt, snap) == Append(nxt, snap)

\* goroutine: next = append(next, snap) stores the list it has read with the
\* snapshot added; mtx.Unlock(); deferred wg.Done()
TaskAppend(t) ==
  /\ t \in DOMAIN tasks
  /\ tasks[t].st = "locked"
  /\ next' = AppendSnap(tasks[t].base, Snap(TaskService(t), TaskNode(t), tasks[t].ts))
  /\ mtx' = NoTask
  /\ tasks' = [tasks EXCEPT ![t].st = "done", ![t].base = << >>]
  /\ UNCHANGED << storeVars, rpcErr, phase, windowSize, done, cached, snapshots, hist, putLog, lockVars, scrPc, services,
                  now, ticks, scanVars, readVars, okLog >>

\* scrape: wg.Wait() returns; s.Lock()
PublishLock ==
  /\ scrPc = "wait"
  /\ WaitDone(tasks)
  /\ CanLockWrite(rwWriter, rwReaders)
  /\ rwWriter' = "scrape"
  /\ scrPc' = "swap"
  /\ UNCHANGED << storeVars, rpcErr, phase, windowSize, done, cached, snapshots, hist, putLog, rwReaders, services, tasks,
                  next, mtx, now, ticks, scanVars, readVars, okLog >>

\* scrape: s.snapshots = next
PublishSwap ==
  /\ scrPc = "swap"
  /\ snapshots' = SwapIn(snapshots, next)
  /\ scrPc' = "put"
  /\ UNCHANGED << storeVars, rpcErr, phase, windowSize, done, cached, hist, putLog, lockVars, services, tasks, next, mtx,
                  now, ticks, scanVars, readVars, okLog >>

\* scrape: s.historicalSnapshots.Put(next)
PublishPut ==
  /\ scrPc = "put"
  /\ hist' = PutHistory(hist, next)
  /\ putLog' = Append(putLog, next)
  /\ scrPc' = "unlock"
  /\ UNCHANGED << storeVars, rpcErr, phase, windowSize, done, cached, snapshots, lockVars, services, tasks, next,
                  mtx, now, ticks, scanVars, readVars, okLog >>

\* scrape: s.Unlock(); the tick is complete
PublishUnlock ==
  /\ scrPc = "unlock"
  /\ rwWriter' = "none"
  /\ ticks' = ticks + 1
  /\ scrPc' = "sleep"
  /\ UNCHANGED << storeVars, rpcErr, phase, windowSize, done, cached, snapshots, hist, putLog, rwReaders, services, tasks,
                  next, mtx, now, scanVars, readVars, okLog >>

\* scrape loop: time.Sleep(time.Second)
Sleep ==
  /\ scrPc = "sleep"
  /\ now' = now + 1
  /\ scrPc' = "loop"
  /\ UNCHANGED << storeVars, rpcErr, phase, windowSize, done, cached, snapshots, hist, putLog, lockVars, services, tasks,
                  next, mtx, ticks, scanVars, readVars, okLog >>

\* ------------------------------------------------------------------- Read
\* the requests Read is called with
Requests ==
  { [past |-> p, hasService |-> FALSE, name |-> "", version |-> ""] : p \in BOOLEAN }
  \cup
  { [past |-> FALSE, hasService |-> TRUE, name |-> "svcA", version |-> "v2"] }

RECURSIVE ConcatRange(_, _, _)
\* the values of entries[lo..hi], appended in order (by halves, so that a
\* window of ReadWindow entries is evaluated without deep recursion)
ConcatRange(entries, lo, hi) ==
  IF lo > hi THEN << >>
  ELSE IF lo = hi THEN entries[lo].Value
  ELSE LET mid == (lo + hi) \div 2
       IN  ConcatRange(entries, lo, mid) \o ConcatRange(entries, mid + 1, hi)

\* for _, entry := range entries { allSnapshots = append(allSnapshots, entry.Value...) }
Concat(entries) == ConcatRange(entries, 1, Len(entries))

\* mutant: without past, the accumulator of the tick in progress is read
ReadSourceAccumulator(past, snaps, h) ==
  IF past THEN Concat(RingGet(h, ReadWindow)) ELSE next

\* mutant: the else branch is missing, history is always the source
ReadSourceAlwaysPast(past, snaps, h) == Concat(RingGet(h, ReadWindow))

\* mutant: the whole ring is read, not a window of it
ReadSourceWholeRing(past, snaps, h) == IF past THEN Concat(h.vals) ELSE snaps

\* the body of Read's locked section: the source of the request
ReadSource(past, snaps, h) ==
  IF past THEN Concat(RingGet(h, ReadWindow)) ELSE snaps

\* mutant: an empty filter field is compared like any other
FilterStrict(a, b) == a = b

\* filter := func(a, b string) bool
Filter(a, b) == IF b = "" THEN TRUE ELSE a = b

RECURSIVE FilterSnapshots(_, _, _, _)
\* the loop of Read over allSnapshots
FilterSnapshots(all, name, version, i) ==
  IF i > Len(all) THEN << >>
  ELSE IF ~Filter(all[i].name, name) THEN FilterSnapshots(all, name, version, i + 1)
  ELSE IF ~Filter(all[i].version, version) THEN FilterSnapshots(all, name, version, i + 1)
  ELSE << all[i] >> \o FilterSnapshots(all, name, version, i + 1)

\* Read from the locked section on: rsp.Stats
ReadResult(req, all) ==
  IF ~req.hasService THEN all ELSE FilterSnapshots(all, req.name, req.version, 1)

\* mutant: an empty result is reported as an error
ReadReturnsNotFound(stats) ==
  IF stats = << >> THEN ErrorValue("go.micro.debug.stats", 404, "not found") ELSE Nil

\* Read: rsp.Stats = ...; return nil
ReadReturns(stats) == Nil

\* Read: s.RLock()
ReadRLock(req) ==
  /\ phase = "running"
  /\ rdPc = "idle"
  /\ CanRLock(rwWriter)
  /\ rwReaders' = rwReaders \cup {"read"}
  /\ rdReq' = req
  /\ rdPc' = "locked"
  /\ UNCHANGED << storeVars, rpcErr, phase, windowSize, done, cached, snapshots, hist, putLog, rwWriter, scrapeVars,
                  scanVars, rdAll, rdRsp, rdErr, rdPubs, rdPrev, okLog >>

\* Read: collect allSnapshots; deferred s.RUnlock(); filter (local to the
\* call); set rsp.Stats; return nil
ReadReturn ==
  /\ rdPc = "locked"
  /\ rdAll' = ReadSource(rdReq.past, snapshots, hist)
  /\ rdRsp' = ReadResult(rdReq, ReadSource(rdReq.past, snapshots, hist))
  /\ rwReaders' = RUnlock(rwReaders, "read")
  /\ rdErr' = ReadReturns(ReadResult(rdReq, ReadSource(rdReq.past, snapshots, hist)))
  /\ rdPubs' = Len(putLog)
  /\ rdPc' = "done"
  /\ UNCHANGED << storeVars, rpcErr, phase, windowSize, done, cached, snapshots, hist, putLog, rwWriter, scrapeVars,
                  scanVars, rdReq, rdPrev, okLog >>

\* the caller drops the response; the next Read may begin
ReadForget ==
  /\ rdPc = "done"
  /\ rdPc' = "idle"
  /\ rdReq' = NoRequest
  /\ rdAll' = << >>
  /\ rdRsp' = << >>
  /\ rdErr' = NoCall
  /\ rdPubs' = 0
  /\ UNCHANGED << storeVars, rpcErr, phase, windowSize, done, cached, snapshots, hist, putLog, lockVars, scrapeVars,
                  scanVars, rdPrev, okLog >>

\* the caller keeps the response and its request, to call Read again
ReadKeep ==
  /\ rdPc = "done"
  /\ rdPrev' = [req |-> rdReq, rsp |-> rdRsp, pubs |-> rdPubs]
  /\ rdPc' = "idle"
  /\ rdReq' = NoRequest
  /\ rdAll' = << >>
  /\ rdRsp' = << >>
  /\ rdErr' = NoCall
  /\ rdPubs' = 0
  /\ UNCHANGED << storeVars, rpcErr, phase, windowSize, done, cached, snapshots, hist, putLog, lockVars, scrapeVars,
                  scanVars, okLog >>

\* ----------------------------------------------------------- Write, Stream
\* the requests Write and Stream are called with
RpcRequests == {"empty", "filled"}

\* mutant: Write accepts the request
WriteReturnsNil(req) == Nil

\* Write: return errors.BadRequest("go.micro.debug.stats", "not implemented")
WriteReturns(req) == BadRequest("go.micro.debug.stats", "not implemented")

\* Stream: return errors.BadRequest("go.micro.debug.stats", "not implemented")
StreamReturns(req) == BadRequest("go.micro.debug.stats", "not implemented")

\* Write: the whole handler; it takes no lock
Write(req) ==
  /\ phase = "running"
  /\ rpcErr' = WriteReturns(req)
  /\ UNCHANGED << storeVars, phase, windowSize, done, cached, snapshots, hist, putLog, lockVars, scrapeVars,
                  scanVars, readVars, okLog >>

\* Stream: the whole handler; it takes no lock
Stream(req) ==
  /\ phase = "running"
  /\ rpcErr' = StreamReturns(req)
  /\ UNCHANGED << storeVars, phase, windowSize, done, cached, snapshots, hist, putLog, lockVars, scrapeVars,
                  scanVars, readVars, okLog >>

\* the caller of Write or Stream drops the error
RpcForget ==
  /\ rpcErr # NoCall
  /\ rpcErr' = NoCall
  /\ UNCHANGED << storeVars, phase, windowSize, done, cached, snapshots, hist, putLog, lockVars, scrapeVars,
                  scanVars, readVars, okLog >>

\* ------------------------------------------------------------ specification
Next ==
  \/ \E w \in 1..MaxWindowSize, listed \in ListResults :
       \E getRes \in GetResChoices(listed.list) : New(w, listed, getRes)
  \/ \E listed \in ListResults : NewFails(listed)
  \/ CloseDone
  \/ \E listed \in ListResults :
       \E getRes \in GetResChoices(listed.list) : ScanTick(listed, getRes)
  \/ ScanLock
  \/ ScanStore
  \/ ScanExit
  \/ ScrapeExit
  \/ ScrapeDefault
  \/ ScrapeRLock
  \/ ScrapeLaunch
  \/ \E t \in DOMAIN tasks : TaskCallFails(t)
  \/ \E t \in DOMAIN tasks : \E d \in Elapsed : TaskCallReturns(t, d)
  \/ \E t \in DOMAIN tasks : TaskLock(t)
  \/ \E t \in DOMAIN tasks : TaskAppend(t)
  \/ PublishLock
  \/ PublishSwap
  \/ PublishPut
  \/ PublishUnlock
  \/ Sleep
  \/ \E req \in Requests : ReadRLock(req)
  \/ ReadReturn
  \/ ReadForget

Spec == Init /\ [][Next]_vars

\* ------------------------------------------------------------------ claims
\* the (name, version, node id) of the snapshots of a batch
Idents(batch) ==
  { [name |-> batch[i].name, version |-> batch[i].version, id |-> batch[i].id] :
      i \in DOMAIN batch }

\* batch is the fully assembled batch of tick k: the batch tick k handed
\* to Put, with one snapshot for every call of tick k that returned a
\* response, and no other
IsCompleteBatch(batch, k) ==
  IF k = 0 THEN batch = << >>
  ELSE /\ k \in DOMAIN okLog
       /\ k \in DOMAIN putLog
       /\ batch = putLog[k]
       /\ Idents(batch) = okLog[k]
       /\ Len(batch) = Cardinality(okLog[k])

\* every snapshot of batch a was stamped before every snapshot of batch b
StampedBefore(a, b) ==
  \A i \in DOMAIN a : \A j \in DOMAIN b : a[i].ts < b[j].ts

\* a goroutine of the tick has not returned yet
InFlight == \E t \in DOMAIN tasks : tasks[t].st \in {"calling", "stamped", "locked"}

\* C1: a Read with past=false observes the complete batch of a completed
\* tick: while it holds the read lock s.snapshots is the complete batch of the
\* last completed tick, and what it has read is the complete batch of one
\* completed tick (the empty batch before the first), never a part of a batch,
\* a mix of two ticks or the accumulator of the tick in flight.
C1_ReadSeesCompleteBatch ==
  /\ rdPc = "locked" => IsCompleteBatch(snapshots, ticks)
  /\ (rdPc = "done" /\ ~rdReq.past) =>
        \E k \in 0..ticks : IsCompleteBatch(rdAll, k)

\* a Read has returned the two snapshots of the first tick while the second
\* tick has one snapshot in its accumulator and one call in flight
C1_Witness ==
  /\ rdPc = "done" /\ ~rdReq.past /\ Len(rdAll) = 2
  /\ ticks = 1 /\ scrPc = "wait" /\ Len(next) = 1
  /\ \E t \in DOMAIN tasks : tasks[t].st = "calling"

\* C2: History never holds more batches than the windowSize New was given,
\* and once more than windowSize batches have been Put, no Get(n) returns the
\* first one: Get(n) is a run of the latest Puts that starts after the first.
C2_HistoryBounded ==
  phase = "running" =>
    /\ Len(hist.vals) <= windowSize
    /\ Len(putLog) >= windowSize + 1 =>
         \A n \in (0..(windowSize + 2)) \cup {ReadWindow} :
            LET g == RingGet(hist, n) IN
              /\ Len(g) <= Len(putLog) - 1
              /\ \A i \in DOMAIN g : g[i].Value = putLog[Len(putLog) - Len(g) + i]
              /\ \A i \in DOMAIN g : StampedBefore(putLog[1], g[i].Value)

\* windowSize + 1 batches were Put, the first of them not empty
C2_Witness ==
  /\ phase = "running" /\ windowSize >= 1
  /\ Len(putLog) = windowSize + 1 /\ putLog[1] # << >>
  /\ Len(hist.vals) = windowSize
  /\ scrPc = "sleep"

\* C4: batches enter History in strict tick order: every completed tick has
\* Put exactly one batch, History holds the complete batches of the latest
\* ticks, oldest first, and goroutines in flight all belong to the one tick
\* in progress.
C4_StrictTickOrder ==
  LET n == Len(hist.vals)
      p == Len(putLog)
  IN  /\ p = IF scrPc = "unlock" THEN ticks + 1 ELSE ticks
      /\ phase = "running" => n = IF p < windowSize THEN p ELSE windowSize
      /\ \A i \in 1..n : IsCompleteBatch(hist.vals[i].Value, p - n + i)
      /\ \A i, j \in 1..n : i < j => StampedBefore(hist.vals[i].Value, hist.vals[j].Value)
      /\ InFlight => (scrPc = "wait" /\ Len(okLog) = ticks + 1 /\ now >= ticks + 1)

\* two ticks have completed and History holds their two batches, both not
\* empty, the older first
C4_Witness ==
  /\ ticks = 2 /\ scrPc = "sleep" /\ Len(hist.vals) = 2
  /\ hist.vals[1].Value # << >> /\ hist.vals[2].Value # << >>
  /\ hist.vals[1].Value[1].ts = 1 /\ hist.vals[2].Value[1].ts = 2

\* the (service, node) positions of scrape's copy whose node declares the
\* transport of the configured client
EligiblePairs ==
  { p \in UNION { {<<i, j>> : j \in DOMAIN services[i].nodes} : i \in DOMAIN services } :
      services[p[1]].nodes[p[2]].protocol = "mucp" }

\* C5: the batch of a tick, while assembled and as published, has at most as
\* many snapshots as the tick's copy of the directory has eligible nodes, and
\* each snapshot carries the (name, version, node id) of an eligible node of
\* the copy whose goroutine ran in this tick.
C5_BatchWithinEligible ==
  /\ scrPc \in {"wait", "swap", "put", "unlock", "sleep"} =>
       /\ Len(next) <= Cardinality(EligiblePairs)
       /\ \A k \in DOMAIN next :
            \E p \in EligiblePairs :
               /\ p \in DOMAIN tasks /\ tasks[p].st = "done"
               /\ next[k].name = services[p[1]].name
               /\ next[k].version = services[p[1]].version
               /\ next[k].id = services[p[1]].nodes[p[2]].id
  /\ scrPc \in {"put", "unlock", "sleep"} => snapshots = next

\* a tick over a copy with an ineligible node has published the snapshots of
\* the two eligible ones
C5_Witness ==
  /\ scrPc = "sleep" /\ Len(snapshots) = 2
  /\ \E i \in DOMAIN services : \E j \in DOMAIN services[i].nodes :
        services[i].nodes[j].protocol # "mucp"

\* C6: a call that fails adds no snapshot and does not undo the others: the
\* accumulator only ever holds snapshots of calls that returned a response,
\* after the join it holds exactly one for each of them, and that is what is
\* published; with the copy {svcA@v1 node1, node2}, node1 answering and node2
\* failing, the batch is the one snapshot of node1.
C6_FailedCallLeavesNoSnapshot ==
  scrPc \in {"wait", "swap", "put", "unlock", "sleep"} =>
    /\ Idents(next) \subseteq okLog[Len(okLog)]
    /\ \A t \in DOMAIN tasks : tasks[t].st = "failed" => TaskIdent(t) \notin Idents(next)
    /\ scrPc # "wait" =>
         /\ Idents(next) = okLog[Len(okLog)]
         /\ Len(next) = Cardinality(okLog[Len(okLog)])
    /\ scrPc \in {"put", "unlock", "sleep"} => snapshots = next
    /\ ( /\ scrPc \in {"put", "unlock", "sleep"}
         /\ services = << Service("svcA", "v1", <<N1, N2>>) >>
         /\ okLog[Len(okLog)] = {[name |-> "svcA", version |-> "v1", id |-> "n1"]} )
       => /\ Len(snapshots) = 1
          /\ Idents(snapshots) = {[name |-> "svcA", version |-> "v1", id |-> "n1"]}
          /\ snapshots[1].ts \in 1..now

\* the scenario: node1 answered, node2 failed, the tick has published
C6_Witness ==
  /\ scrPc = "sleep"
  /\ services = << Service("svcA", "v1", <<N1, N2>>) >>
  /\ tasks[<<1, 1>>].st = "done" /\ tasks[<<1, 2>>].st = "failed"
  /\ Len(snapshots) = 1 /\ snapshots[1].id = "n1"

\* C7: a tick without any snapshot is published like any other: once it has
\* completed, s.snapshots is the empty batch, the newest History entry is the
\* empty batch, and that is what a Read holding the read lock finds (no
\* publication is under way while it holds the lock).
C7_EmptyTickPublished ==
  (/\ ticks >= 1 /\ ticks \in DOMAIN okLog /\ okLog[ticks] = {}
   /\ scrPc \notin {"swap", "put", "unlock"}) =>
     /\ snapshots = << >>
     /\ Len(putLog) = ticks
     /\ windowSize >= 1 =>
          (Len(hist.vals) >= 1 /\ hist.vals[Len(hist.vals)].Value = << >>)
     /\ rdPc = "locked" => rwWriter = "none"

\* after a first tick with snapshots, a second tick collected none and has
\* completed; a Read with past=false holds the read lock
C7_Witness ==
  /\ ticks = 2 /\ okLog[1] # {} /\ okLog[2] = {}
  /\ putLog[1] # << >>
  /\ rdPc = "locked" /\ ~rdReq.past /\ ~rdReq.hasService

\* C9: a Read with past=false and no service filter returns s.snapshots as
\* it is, in order, and so nothing of an older History batch.
C9_ReadCurrentUnfiltered ==
  [][ (rdPc = "locked" /\ rdPc' = "done" /\ ~rdReq.past /\ ~rdReq.hasService)
        => rdRsp' = snapshots ]_vars

\* such a Read has returned the batch of the second tick while History also
\* holds the batch of the first
C9_Witness ==
  /\ rdPc = "done" /\ ~rdReq.past /\ ~rdReq.hasService
  /\ rdRsp # << >> /\ rdRsp[1].ts = 2
  /\ Len(hist.vals) = 2 /\ hist.vals[1].Value # << >>

\* a scan returns in this step: the first one inside New, or one of the
\* refresh loop, after a failed ListServices or after storing its list
ScanReturns ==
  \/ phase = "new" /\ phase' # "new"
  \/ scanPc = "wait" /\ scans' = scans + 1 /\ scanPc' = "wait"
  \/ scanPc = "store" /\ scanPc' = "wait"

\* C13: when a registry operation of a scan failed (ListServices, or the
\* GetService that follows a service listed without nodes), the scan leaves
\* s.cached as it was and returns the error.
C13_RefreshFailureLeavesDirectory ==
  [][ (ScanReturns /\ scanOpFailed') =>
        (cached' = cached /\ ~scanErr'.isNil) ]_vars

\* C14: when the first scan returns an error, New returns it and no
\* collector: the loops are not started, so from then on no step of the
\* handler is possible, no tick has run and nothing was published.
C14_ConstructionFails ==
  /\ [][ (phase = "new" /\ phase' # "new" /\ ~scanErr'.isNil) =>
           phase' = "failed" ]_vars
  /\ [](phase = "failed" =>
          /\ ~scanErr.isNil
          /\ ~ENABLED Next
          /\ scrPc = "loop" /\ scanPc = "wait" /\ DOMAIN tasks = {}
          /\ ticks = 0 /\ scans = 0 /\ okLog = << >>
          /\ snapshots = << >> /\ putLog = << >> /\ hist.vals = << >>)

\* New has failed on the error of ListServices
C14_Witness ==
  /\ phase = "failed" /\ scanErr = ListErr
  /\ ~done /\ cached = << >>

\* b ends with a
IsSuffixOf(a, b) ==
  /\ Len(a) <= Len(b)
  /\ SubSeq(b, Len(b) - Len(a) + 1, Len(b)) = a

\* C22: with a ring of capacity at least 1, once the first tick has
\* published, in every state in which no publication is under way (the only
\* states a reader holding the read lock is in), Current State is the batch of
\* the newest History entry, and what Read collects with past=true ends with
\* what it collects with past=false.
C22_CurrentIsNewestHistory ==
  (/\ windowSize >= 1 /\ Len(putLog) >= 1
   /\ (rdPc = "locked" \/ rwWriter # "scrape")) =>
    /\ hist.vals # << >>
    /\ hist.vals[Len(hist.vals)].Value = snapshots
    /\ IsSuffixOf(ReadSource(FALSE, snapshots, hist), ReadSource(TRUE, snapshots, hist))

\* a Read with past=true holds the read lock after the second tick: History
\* holds two different batches and the newest is Current State
C22_Witness ==
  /\ rdPc = "locked" /\ rdReq.past
  /\ ticks = 2 /\ Len(hist.vals) = 2
  /\ snapshots # << >>
  /\ hist.vals[2].Value = snapshots
  /\ hist.vals[1].Value # snapshots
  /\ Len(ReadSource(TRUE, snapshots, hist)) > Len(snapshots)

\* ------------------------------------------- the handler and its callers
\* the state after New(MaxWindowSize) over a registry that lists svcA@v1 with
\* two nodes
InitCalls ==
  /\ StoreInit
  /\ phase = "running"
  /\ windowSize = MaxWindowSize
  /\ done = FALSE
  /\ cached = << Service("svcA", "v1", <<N1, N2>>) >>
  /\ snapshots = << >>
  /\ hist = NewHistory(MaxWindowSize)
  /\ putLog = << >>
  /\ rwWriter = "none"
  /\ rwReaders = {}
  /\ scrPc = "loop"
  /\ services = << >>
  /\ tasks = << >>
  /\ next = << >>
  /\ mtx = NoTask
  /\ now = 1
  /\ ticks = 0
  /\ scanPc = "wait"
  /\ scanList = << >>
  /\ scans = 0
  /\ rdPc = "idle"
  /\ rdReq = NoRequest
  /\ rdAll = << >>
  /\ rdRsp = << >>
  /\ rdErr = NoCall
  /\ rdPubs = 0
  /\ rdPrev = NoPrev
  /\ rpcErr = NoCall
  /\ scanErr = Nil
  /\ scanOpFailed = FALSE
  /\ okLog = << >>

\* the running handler, done left open, with callers of Read, Write and
\* Stream (the responses of Read are dropped)
NextCalls ==
  \/ \E listed \in ListResults :
       \E getRes \in GetResChoices(listed.list) : ScanTick(listed, getRes)
  \/ ScanLock
  \/ ScanStore
  \/ ScrapeDefault
  \/ ScrapeRLock
  \/ ScrapeLaunch
  \/ \E t \in DOMAIN tasks : TaskCallFails(t)
  \/ \E t \in DOMAIN tasks : \E d \in Elapsed : TaskCallReturns(t, d)
  \/ \E t \in DOMAIN tasks : TaskLock(t)
  \/ \E t \in DOMAIN tasks : TaskAppend(t)
  \/ PublishLock
  \/ PublishSwap
  \/ PublishPut
  \/ PublishUnlock
  \/ Sleep
  \/ \E req \in Requests : ReadRLock(req)
  \/ ReadReturn
  \/ ReadForget
  \/ \E req \in RpcRequests : Write(req)
  \/ \E req \in RpcRequests : Stream(req)
  \/ RpcForget

SpecCalls == InitCalls /\ [][NextCalls]_vars

\* C12: Write and Stream fail at once with a bad-request error whose detail
\* is "not implemented": both can return in every state of the running
\* handler, whoever holds the locks, and the step in which one of them returns
\* hands back an error of code 400 with that detail and changes neither
\* s.snapshots, History nor s.cached.
C12_WriteStreamNotImplemented ==
  /\ [](phase = "running" =>
          /\ \A req \in RpcRequests : ENABLED Write(req)
          /\ \A req \in RpcRequests : ENABLED Stream(req))
  /\ [][ (rpcErr = NoCall /\ rpcErr' # NoCall) =>
           /\ rpcErr'.returned /\ ~rpcErr'.isNil
           /\ rpcErr'.code = 400
           /\ rpcErr'.id = "go.micro.debug.stats"
           /\ rpcErr'.detail = "not implemented"
           /\ UNCHANGED << snapshots, hist, cached >> ]_vars

\* the error was handed back while scrape holds the write lock, after a tick
\* has published a snapshot and the directory was replaced
C12_Witness ==
  /\ rpcErr.returned /\ rpcErr.code = 400 /\ rpcErr.detail = "not implemented"
  /\ rwWriter = "scrape" /\ ticks = 1 /\ snapshots # << >>
  /\ scans = 1

\* the running handler, done left open, with a caller of Read that keeps
\* responses
NextReads ==
  \/ \E listed \in ListResults :
       \E getRes \in GetResChoices(listed.list) : ScanTick(listed, getRes)
  \/ ScanLock
  \/ ScanStore
  \/ ScrapeDefault
  \/ ScrapeRLock
  \/ ScrapeLaunch
  \/ \E t \in DOMAIN tasks : TaskCallFails(t)
  \/ \E t \in DOMAIN tasks : \E d \in Elapsed : TaskCallReturns(t, d)
  \/ \E t \in DOMAIN tasks : TaskLock(t)
  \/ \E t \in DOMAIN tasks : TaskAppend(t)
  \/ PublishLock
  \/ PublishSwap
  \/ PublishPut
  \/ PublishUnlock
  \/ Sleep
  \/ \E req \in Requests : ReadRLock(req)
  \/ ReadReturn
  \/ ReadForget
  \/ ReadKeep

SpecReads == InitCalls /\ [][NextReads]_vars

\* C11: Read is idempotent and read-only: a Read whose caller kept the
\* response of an earlier Read with the same request, with no publication
\* since, returns that same response, whatever the scrape loop, its
\* goroutines and scan did in between; and no step of a Read
\* changes s.snapshots, History or s.cached.
C11_ReadIdempotentReadOnly ==
  /\ [][ (rdPc = "locked" /\ rdPc' = "done"
           /\ rdPrev.req = rdReq /\ rdPrev.pubs = Len(putLog))
         => rdRsp' = rdPrev.rsp ]_vars
  /\ [][ (rdPc' # rdPc) => UNCHANGED << snapshots, hist, cached >> ]_vars

\* the second of two Reads with the same request has returned the same
\* snapshots as the first, while the next tick has a snapshot in its
\* accumulator and the directory was replaced in between
C11_Witness ==
  /\ rdPc = "done" /\ rdPrev.req = rdReq /\ rdPrev.pubs = Len(putLog)
  /\ rdRsp # << >> /\ rdRsp = rdPrev.rsp
  /\ scrPc = "wait" /\ Len(next) = 1
  /\ scans = 1 /\ cached # << Service("svcA", "v1", <<N1, N2>>) >>

\* a call to a node is in flight
Calling == \E t \in DOMAIN tasks : tasks[t].st = "calling"

\* C17: while a call to a node is in flight the scraper holds neither side
\* of s.RWMutex, and no goroutine in its call holds the accumulator's mutex;
\* the write side can then only be held by scan, for its one assignment, so a
\* Read gets the read lock at once when scan is not storing, and a Read that
\* holds it returns without waiting for anything.
C17_NoLockDuringCall ==
  Calling =>
    /\ rwWriter # "scrape" /\ "scrape" \notin rwReaders
    /\ \A t \in DOMAIN tasks : tasks[t].st = "calling" => mtx # t
    /\ rwWriter = "scan" => scanPc = "store"
    /\ (rdPc = "idle" /\ rwWriter = "none") =>
          \A req \in Requests : ENABLED ReadRLock(req)
    /\ rdPc = "locked" => ENABLED ReadReturn

\* a Read holds the read lock while one call of the tick is still in flight
\* and another goroutine of the tick holds the accumulator's mutex
C17_Witness ==
  /\ rdPc = "locked"
  /\ \E t \in DOMAIN tasks : tasks[t].st = "calling"
  /\ \E t \in DOMAIN tasks : tasks[t].st = "locked" /\ mtx = t
  /\ ticks = 1 /\ snapshots # << >>

\* C18: Read returns nil whatever the request and the state: also after a
\* tick whose calls all failed and after a scan that failed, and when no
\* snapshot matches the filter, where the response is the empty list.
C18_ReadNeverFails ==
  /\ rdPc = "done" =>
       /\ rdErr.returned /\ rdErr.isNil
       /\ (\A i \in DOMAIN rdAll :
              /\ rdReq.hasService
              /\ \/ (rdReq.name # "" /\ rdAll[i].name # rdReq.name)
                 \/ (rdReq.version # "" /\ rdAll[i].version # rdReq.version))
            => rdRsp = << >>
  /\ rdPc # "done" => ~rdErr.returned

\* a Read with a filter that matches nothing has returned nil and the empty
\* list, after a tick that published snapshots, a tick whose calls all
\* failed and a scan that failed
C18_Witness ==
  /\ rdPc = "done" /\ rdErr = Nil /\ rdRsp = << >>
  /\ rdReq.hasService /\ rdAll # << >>
  /\ ticks = 2 /\ okLog[1] = {} /\ okLog[2] # {}
  /\ scans = 1 /\ ~scanErr.isNil

\* the goroutines of the tick that have appended their snapshot
Appended == {t \in DOMAIN tasks : tasks[t].st = "done"}

\* C19: scrape publishes only after every goroutine of the tick has returned,
\* and whatever the order in which the goroutines ran, the accumulator holds
\* one snapshot for each goroutine that has appended, each node once, so the
\* published batch holds exactly one snapshot for each call of the tick that
\* returned a response.
C19_PublishAfterJoinNoLoss ==
  /\ scrPc \in {"swap", "put", "unlock"} =>
       /\ \A t \in DOMAIN tasks : tasks[t].st \in {"failed", "done"}
       /\ mtx = NoTask
  /\ scrPc \in {"wait", "swap", "put", "unlock", "sleep"} =>
       /\ Len(next) = Cardinality(Appended)
       /\ Idents(next) = {TaskIdent(t) : t \in Appended}
       /\ \A i, j \in DOMAIN next : next[i].id = next[j].id => i = j
  /\ scrPc \in {"put", "unlock", "sleep"} =>
       /\ snapshots = next
       /\ Len(snapshots) = Cardinality(okLog[Len(okLog)])
       /\ Idents(snapshots) = okLog[Len(okLog)]
  /\ scrPc \in {"unlock", "sleep"} => putLog[Len(putLog)] = next

\* a tick has published two snapshots that were appended in the order
\* opposite to the one the goroutines were started in
C19_Witness ==
  /\ scrPc = "sleep" /\ Len(snapshots) = 2
  /\ services = << Service("svcA", "v1", <<N1, N2>>) >>
  /\ snapshots[1].id = "n2" /\ snapshots[2].id = "n1"
  /\ okLog[Len(okLog)] = {TaskIdent(t) : t \in DOMAIN tasks}

\* the (name, version, node id) of the eligible nodes of scrape's copy
CopyIdents ==
  { [name |-> services[p[1]].name, version |-> services[p[1]].version,
     id |-> services[p[1]].nodes[p[2]].id] : p \in EligiblePairs }

\* C20: a tick works on the copy it took: the copy is the whole of s.cached
\* as it was under the read lock, it does not change while the tick runs
\* although scan may replace s.cached meanwhile, the goroutines of the tick
\* are those of the eligible nodes of the copy and the batch names only such
\* nodes; and s.cached is replaced in one step, by the whole list of a scan,
\* while scan holds the write lock and nobody holds the read lock.
C20_TickUsesItsCopy ==
  /\ [][ (scrPc = "rlocked" /\ scrPc' # "rlocked") =>
           (services' = cached /\ "scrape" \in rwReaders /\ rwWriter = "none") ]_vars
  /\ [][ (scrPc \in {"wait", "swap", "put", "unlock", "sleep"}) =>
           (services' = services /\ DOMAIN tasks' = DOMAIN tasks) ]_vars
  /\ [](scrPc \in {"wait", "swap", "put", "unlock", "sleep"} =>
          /\ DOMAIN tasks = EligiblePairs
          /\ Idents(next) \subseteq CopyIdents)
  /\ [][ (phase = "running" /\ cached' # cached) =>
           (rwWriter = "scan" /\ rwReaders = {} /\ scanPc = "store"
            /\ cached' = scanList) ]_vars

\* scan has replaced s.cached while the tick has one snapshot in its
\* accumulator and one call in flight; the tick goes on with its copy
C20_Witness ==
  /\ scrPc = "wait" /\ scans = 1 /\ cached # services
  /\ Len(services) = 1 /\ Len(cached) = 2
  /\ Len(next) = 1
  /\ \E t \in DOMAIN tasks : tasks[t].st = "calling"

\* ------------------------------------------------- the loops and the stop
\* what ListServices returns to the scans while the stop is watched: another
\* directory, or an error
StopListResults ==
  { Ok(<< Service("svcA", "v1", <<N1, N4>>), Service("svcA", "v2", <<N2>>) >>), Failed }

\* the running handler with a caller of Read (current state, no filter)
NextStop ==
  \/ CloseDone
  \/ \E listed \in StopListResults :
       \E getRes \in GetResChoices(listed.list) : ScanTick(listed, getRes)
  \/ ScanLock
  \/ ScanStore
  \/ ScanExit
  \/ ScrapeExit
  \/ ScrapeDefault
  \/ ScrapeRLock
  \/ ScrapeLaunch
  \/ \E t \in DOMAIN tasks : TaskCallFails(t)
  \/ \E t \in DOMAIN tasks : \E d \in Elapsed : TaskCallReturns(t, d)
  \/ \E t \in DOMAIN tasks : TaskLock(t)
  \/ \E t \in DOMAIN tasks : TaskAppend(t)
  \/ PublishLock
  \/ PublishSwap
  \/ PublishPut
  \/ PublishUnlock
  \/ Sleep
  \/ ReadRLock(NoRequest)
  \/ ReadReturn
  \/ ReadForget

\* scheduling: a goroutine that can take its next step takes it; a call
\* returns or fails (its context times out after 2 s); a Read that holds the
\* read lock returns; a writer waiting for s.Lock() gets the lock although
\* readers come and go (sync.RWMutex holds new readers back for a waiting
\* writer); a reader waiting for s.RLock() and a goroutine waiting for
\* mtx.Lock() get the lock once it stays free; the refresh loop's select
\* chooses at random among the cases that are ready, so that it takes done
\* at one of the selects that find done closed, however often the ticker
\* fires
FairStop ==
  /\ WF_vars(ScrapeExit)
  /\ WF_vars(ScrapeRLock)
  /\ WF_vars(ScrapeLaunch)
  /\ WF_vars(\E t \in DOMAIN tasks : TaskCallFails(t) \/ TaskCallReturns(t, 0))
  /\ WF_vars(\E t \in DOMAIN tasks : TaskLock(t))
  /\ WF_vars(\E t \in DOMAIN tasks : TaskAppend(t))
  /\ SF_vars(PublishLock)
  /\ WF_vars(PublishSwap)
  /\ WF_vars(PublishPut)
  /\ WF_vars(PublishUnlock)
  /\ WF_vars(Sleep)
  /\ SF_vars(ScanLock)
  /\ WF_vars(ScanStore)
  /\ SF_vars(ScanExit)
  /\ WF_vars(ReadReturn)

SpecStop == InitCalls /\ [][NextStop]_vars /\ FairStop

\* both background loops have returned
LoopsStopped == scrPc = "stopped" /\ scanPc = "stopped"

\* C16 as stated, its clause on the refresh loop: once done is closed no scan
\* begins. The code does not guarantee it: the select of the refresh loop
\* (lines 117-121) chooses at random between the closed done channel and a
\* firing of the ticker that is ready at the same select, so a scan can
\* begin after done was closed.
C16_NoScanOnceDoneClosed ==
  [][ done => scans' = scans ]_vars

\* C16, amended: once done is closed both loops return; the scrape loop
\* begins a tick only at a select that finds done open, and has returned for
\* good once it took the signal; a tick under way when done is closed joins
\* its calls and publishes; the refresh loop begins a scan only at its
\* select, where it can take the signal as soon as done is closed; a scan
\* that the select still chose, or that was under way when done was closed,
\* runs to its end and brings the loop back to the select; once the loop
\* took the signal it runs no scan and has returned for good.
C16_StopTerminatesLoops ==
  /\ done ~> LoopsStopped
  /\ (done /\ scrPc \in {"scrape", "rlocked", "wait"}) ~> (scrPc = "sleep")
  /\ [][ (scrPc = "loop" /\ scrPc' # "loop") =>
           (IF done THEN scrPc' = "stopped" ELSE scrPc' = "scrape") ]_vars
  /\ [][ scrPc = "stopped" =>
           (scrPc' = "stopped" /\
            UNCHANGED << ticks, tasks, next, snapshots, hist, putLog >>) ]_vars
  /\ [][ scans' # scans => scanPc = "wait" ]_vars
  /\ [](done /\ scanPc = "wait" => ENABLED ScanExit)
  /\ (done /\ scanPc \in {"lock", "store"}) ~> (scanPc = "wait")
  /\ [][ scanPc = "stopped" =>
           (scanPc' = "stopped" /\ UNCHANGED << scans, scanList, cached >>) ]_vars

\* done was closed during the second tick, which has published its
\* snapshots; the scrape loop has returned, and the refresh loop stands at
\* its select with done closed, where the ticker's case can still be chosen
\* and a scan begin
C16_Witness ==
  /\ done /\ scrPc = "stopped" /\ scanPc = "wait"
  /\ ticks = 2 /\ Len(putLog) = 2 /\ snapshots # << >> /\ snapshots[1].ts = 2
  /\ ENABLED (\E listed \in StopListResults :
                \E getRes \in GetResChoices(listed.list) : ScanTick(listed, getRes))

\* the goroutines of the tick whose call has failed (error or deadline)
FailedCalls == {t \in DOMAIN tasks : tasks[t].st = "failed"}

\* C21: every scrape tick terminates and publishes, given that each call
\* returns a response or an error (at the latest when its 2 s context
\* expires): a tick that has begun reaches the end of its publication; the
\* join is held up as long as a call is out and by nothing else once every
\* call has returned or failed; a call that fails adds nothing, and the
\* batch the tick publishes (Current State and newest History entry) holds
\* the snapshot of every node that answered.
C21_TickTerminatesAndPublishes ==
  /\ (scrPc \in {"scrape", "rlocked", "wait"}) ~> (scrPc = "sleep")
  /\ [](Calling => scrPc = "wait")
  /\ []((scrPc = "wait" /\ ~InFlight /\ rwWriter = "none" /\ rwReaders = {})
          => ENABLED PublishLock)
  /\ []((scrPc = "sleep" /\ windowSize >= 1) =>
          /\ Len(snapshots) = Cardinality(Appended)
          /\ \A t \in Appended :
               \E i \in DOMAIN snapshots :
                 /\ snapshots[i].name = TaskService(t).name
                 /\ snapshots[i].version = TaskService(t).version
                 /\ snapshots[i].id = TaskNode(t).id
          /\ hist.vals # << >>
          /\ hist.vals[Len(hist.vals)].Value = snapshots)

\* the second tick has published: the call to node1 failed at its deadline,
\* node2 answered and its snapshot is the published batch
C21_Witness ==
  /\ scrPc = "sleep" /\ ticks = 2
  /\ FailedCalls = {<<1, 1>>} /\ Appended = {<<1, 2>>}
  /\ snapshots = << [name |-> "svcA", version |-> "v1", id |-> "n2", ts |-> 2] >>
  /\ putLog[2] = snapshots

\* ------------------------------------------------------------ scan alone
\* services a listing holds at most
MaxListed == 2

\* the services a registry may list: svc@Av1, svcA@v1 and svcA@Av1, with or
\* without a node
WideServices ==
  { Service(nv[1], nv[2], ns) :
      nv \in { <<"svc", "Av1">>, <<"svcA", "v1">>, <<"svcA", "Av1">> },
      ns \in { << >>, <<N1>> } }

\* what registry.ListServices may return when it succeeds: any list of up to
\* MaxListed of them, the same (name, version) possibly more than once
WideListings == UNION { [1..n -> WideServices] : n \in 0..MaxListed }

\* what registry.GetService(name) may return when it succeeds: the versions
\* of that name, with nodes
WideGetServiceResults(name) ==
  { << >>,
    << Service(name, "v1", <<N2>>) >>,
    << Service(name, "v1", <<N2>>), Service(name, "Av1", <<N1>>) >>,
    << Service(name, "v1", <<N1>>), Service(name, "v1", <<N2>>) >> }

\* the results GetService can give to the follow-up lookups of one scan
WideGetResChoices(listed) ==
  { g \in [Nodeless(listed) ->
               {Ok(l) : l \in UNION {WideGetServiceResults(listed[i].name) :
                                       i \in Nodeless(listed)}} \cup {Failed}] :
      \A i \in Nodeless(listed) :
         g[i].err \/ g[i].list \in WideGetServiceResults(listed[i].name) }

\* the refresh loop of the running handler over such a registry
NextScan ==
  \/ \E listed \in {Ok(l) : l \in WideListings} \cup {Failed} :
       \E getRes \in WideGetResChoices(listed.list) : ScanTick(listed, getRes)
  \/ ScanLock
  \/ ScanStore

SpecScan == InitCalls /\ [][NextScan]_vars

\* the list holds no two entries with the same name and version
OnePerVersion(list) ==
  \A i, j \in DOMAIN list :
     (list[i].name = list[j].name /\ list[i].version = list[j].version) => i = j

\* a scan has stored its list and returned nil
ScanStored == scans >= 1 /\ scanPc = "wait" /\ scanErr.isNil

\* C15: the list a scan builds and stores has at most one entry for each
\* (name, version), whatever ListServices and the follow-up GetService calls
\* returned: the same pair listed twice, listed and also returned by
\* GetService, or returned twice by GetService.
C15_OneEntryPerVersion ==
  /\ OnePerVersion(cached)
  /\ scanPc \in {"lock", "store"} => OnePerVersion(scanList)

\* a scan has stored svcA@v1 once, as GetService returned it, and svcA@Av1,
\* after ListServices listed svcA@v1 with a node and svcA without nodes
C15_Witness ==
  /\ ScanStored /\ ~scanOpFailed
  /\ Len(cached) = 2
  /\ \E i \in DOMAIN cached : cached[i] = Service("svcA", "v1", <<N2>>)
  /\ \E i \in DOMAIN cached : cached[i] = Service("svcA", "Av1", <<N1>>)

\* the (name, version) pairs the registry returned with nodes to one scan:
\* listed with nodes, or returned by the follow-up GetService of a listed
\* service that came without nodes
ReturnedWithNodes(listed, getRes) ==
  { [name |-> listed[i].name, version |-> listed[i].version] :
      i \in {k \in DOMAIN listed : Len(listed[k].nodes) > 0} }
  \cup
  UNION { { [name |-> getRes[i].list[j].name, version |-> getRes[i].list[j].version] :
              j \in {k \in DOMAIN getRes[i].list : Len(getRes[i].list[k].nodes) > 0} } :
          i \in {k \in Nodeless(listed) : ~getRes[k].err} }

\* C23: a scan that succeeds retains every distinct identity: whatever the
\* registry returned to it, each (name, version) pair that was returned with
\* nodes has an entry of its own in the list the scan builds and stores, also
\* when the name and version of two pairs concatenate to the same text.
C23_DistinctIdentitiesRetained ==
  [][ \A listed \in {Ok(l) : l \in WideListings} :
        \A getRes \in WideGetResChoices(listed.list) :
          ScanTick(listed, getRes) =>
            \A id \in ReturnedWithNodes(listed.list, getRes) :
              \E i \in DOMAIN scanList' :
                scanList'[i].name = id.name /\ scanList'[i].version = id.version ]_vars

\* ------------------------------------------------ the ring and Read alone
\* largest capacity of the rings that start empty
MaxRingSize == 3
\* ticks published on top of the initial ring
MaxRingPuts == 4
\* snapshots in a source list of the filter
MaxSource == 3

\* the batch of tick k with one snapshot
Batch1(k) == << Snap(Service("svcA", "v1", <<N1, N2>>), N1, k) >>
\* the batch of tick k with two snapshots
Batch2(k) ==
  << Snap(Service("svcA", "v1", <<N1, N2>>), N2, k),
     Snap(Service("svcA", "v1", <<N1, N2>>), N1, k) >>

\* the ticks already published when the ring of capacity w is first looked at
RingBase(w) == IF w > MaxRingSize THEN ReadWindow - 1 ELSE 0

\* the state after New(w) and RingBase(w) ticks of one snapshot each
InitRing ==
  /\ StoreInit
  /\ phase = "running"
  /\ windowSize \in (0..MaxRingSize) \cup {ReadWindow + 1}
  /\ done = FALSE
  /\ cached = << Service("svcA", "v1", <<N1, N2>>) >>
  /\ putLog = [k \in 1..RingBase(windowSize) |-> Batch1(k)]
  /\ hist = [size |-> windowSize,
             vals |-> [k \in 1..RingBase(windowSize) |-> [Value |-> Batch1(k)]]]
  /\ snapshots = IF RingBase(windowSize) = 0 THEN << >> ELSE Batch1(RingBase(windowSize))
  /\ rwWriter = "none"
  /\ rwReaders = {}
  /\ scrPc = "loop"
  /\ services = << >>
  /\ tasks = << >>
  /\ next = << >>
  /\ mtx = NoTask
  /\ now = RingBase(windowSize) + 1
  /\ ticks = RingBase(windowSize)
  /\ scanPc = "wait"
  /\ scanList = << >>
  /\ scans = 0
  /\ rdPc = "idle"
  /\ rdReq = NoRequest
  /\ rdAll = << >>
  /\ rdRsp = << >>
  /\ rdErr = NoCall
  /\ rdPubs = 0
  /\ rdPrev = NoPrev
  /\ rpcErr = NoCall
  /\ scanErr = Nil
  /\ scanOpFailed = FALSE
  /\ okLog = << >>

\* one whole tick whose goroutines assembled `batch`: the locked section of
\* scrape (swap, Put) and the sleep that follows
RingTick(batch) ==
  /\ ticks < RingBase(windowSize) + MaxRingPuts
  /\ rwWriter = "none" /\ rwReaders = {}
  /\ snapshots' = SwapIn(snapshots, batch)
  /\ hist' = PutHistory(hist, batch)
  /\ putLog' = Append(putLog, batch)
  /\ ticks' = ticks + 1
  /\ now' = now + 1
  /\ UNCHANGED << storeVars, rpcErr, phase, windowSize, done, cached, lockVars, scrPc, services, tasks,
                  next, mtx, scanVars, readVars, okLog >>

NextRing ==
  \/ \E batch \in {<< >>, Batch1(now), Batch2(now)} : RingTick(batch)
  \/ \E req \in Requests : ReadRLock(req)
  \/ ReadReturn
  \/ ReadForget

SpecRing == InitRing /\ [][NextRing]_vars

\* the smallest of three numbers
Min3(a, b, c) ==
  LET ab == IF a < b THEN a ELSE b IN IF ab < c THEN ab ELSE c

\* the arguments Get is looked at with
GetArgs == (0..(MaxRingSize + 2)) \cup {10, ReadWindow, ReadWindow + 5}

\* C3: Get(n) returns exactly the min(n, batches recorded, capacity) most
\* recently Put batches, oldest first; with capacity 3 and four Puts, Get(10)
\* is the second, third and fourth of them.
C3_GetLatestInOrder ==
  /\ \A n \in GetArgs :
       LET g == RingGet(hist, n)
           m == Min3(n, Len(putLog), windowSize)
       IN  /\ Len(g) = m
           /\ \A i \in 1..m : g[i].Value = putLog[Len(putLog) - m + i]
  /\ (windowSize = 3 /\ Len(putLog) = 4) =>
       RingGet(hist, 10) = << [Value |-> putLog[2]], [Value |-> putLog[3]],
                              [Value |-> putLog[4]] >>

\* capacity 3, four Puts of batches that differ, and Get(10) has three entries
C3_Witness ==
  /\ windowSize = 3 /\ Len(putLog) = 4
  /\ putLog[1] # << >> /\ putLog[2] # << >> /\ putLog[4] = << >>
  /\ Len(RingGet(hist, 10)) = 3
  /\ RingGet(hist, 10)[1].Value[1].ts = 2

RECURSIVE SumLen(_, _, _)
\* the number of snapshots in log[lo..hi]
SumLen(log, lo, hi) ==
  IF lo > hi THEN 0
  ELSE IF lo = hi THEN Len(log[lo])
  ELSE LET mid == (lo + hi) \div 2 IN SumLen(log, lo, mid) + SumLen(log, mid + 1, hi)

\* list is the batches log[lo..hi] one after the other, for a log whose k-th
\* batch holds the snapshots stamped k: every snapshot of the list is the
\* first of the batch of its tick and follows an earlier tick, or follows its
\* predecessor in that batch; and no snapshot of these batches is missing
IsConcatOf(list, log, lo, hi) ==
  /\ Len(list) = SumLen(log, lo, hi)
  /\ \A p \in DOMAIN list :
       LET k == list[p].ts IN
         /\ k >= lo /\ k <= hi
         /\ \E q \in DOMAIN log[k] :
              /\ list[p] = log[k][q]
              /\ IF q = 1 THEN (p = 1 \/ list[p - 1].ts < k)
                          ELSE (p > 1 /\ list[p - 1] = log[k][q - 1])

\* C10: a Read with past=true collects the batches of the
\* min(3600, capacity, ticks so far) latest ticks, oldest tick first, and so
\* no snapshot of an older tick, also for a ring of more than 3600 slots.
C10_ReadPastWindow ==
  [][ (rdPc = "locked" /\ rdPc' = "done" /\ rdReq.past) =>
        LET m == Min3(ReadWindow, windowSize, Len(putLog)) IN
          /\ IsConcatOf(rdAll', putLog, Len(putLog) - m + 1, Len(putLog))
          /\ \A p \in DOMAIN rdAll' : rdAll'[p].ts > Len(putLog) - ReadWindow
          /\ ~rdReq.hasService => rdRsp' = rdAll' ]_vars

\* a ring of more than 3600 slots holds more than 3600 batches, and a Read
\* with past=true has returned the snapshots of the latest 3600 ticks only
C10_Witness ==
  /\ rdPc = "done" /\ rdReq.past
  /\ windowSize > ReadWindow /\ Len(hist.vals) = ReadWindow + 1
  /\ Len(putLog) = ReadWindow + 1 /\ putLog[ReadWindow + 1] = Batch2(ReadWindow + 1)
  /\ Len(rdAll) = ReadWindow + 1
  /\ rdAll[1].ts = 2

\* ---------------------------------------------------------- the filter alone
\* snapshots a batch may hold
FilterSnaps ==
  { [name |-> "svcA", version |-> "v1", id |-> "n1", ts |-> 1],
    [name |-> "svcA", version |-> "v1", id |-> "n2", ts |-> 1],
    [name |-> "svcA", version |-> "v2", id |-> "n3", ts |-> 1],
    [name |-> "svcB", version |-> "v1", id |-> "n4", ts |-> 1] }

\* the batches of one tick over these nodes: no node twice
SourceLists ==
  UNION { { l \in [1..n -> FilterSnaps] : \A i, j \in 1..n : i # j => l[i] # l[j] } :
          n \in 0..MaxSource }

\* the requests the filter is looked at with
FilterRequests ==
  { [past |-> p, hasService |-> FALSE, name |-> "", version |-> ""] : p \in BOOLEAN }
  \cup
  { [past |-> p, hasService |-> TRUE, name |-> n, version |-> v] :
      p \in BOOLEAN, n \in {"", "svcA", "svcB"}, v \in {"", "v1", "v2"} }

\* the state after New(1) and a first tick that published some batch
InitFilter ==
  /\ StoreInit
  /\ phase = "running"
  /\ windowSize = 1
  /\ done = FALSE
  /\ cached = << >>
  /\ snapshots \in SourceLists
  /\ hist = PutHistory(NewHistory(1), snapshots)
  /\ putLog = << snapshots >>
  /\ rwWriter = "none"
  /\ rwReaders = {}
  /\ scrPc = "loop"
  /\ services = << >>
  /\ tasks = << >>
  /\ next = snapshots
  /\ mtx = NoTask
  /\ now = 2
  /\ ticks = 1
  /\ scanPc = "wait"
  /\ scanList = << >>
  /\ scans = 0
  /\ rdPc = "idle"
  /\ rdReq = NoRequest
  /\ rdAll = << >>
  /\ rdRsp = << >>
  /\ rdErr = NoCall
  /\ rdPubs = 0
  /\ rdPrev = NoPrev
  /\ rpcErr = NoCall
  /\ scanErr = Nil
  /\ scanOpFailed = FALSE
  /\ okLog = << Idents(snapshots) >>

NextFilter ==
  \/ \E req \in FilterRequests : ReadRLock(req)
  \/ ReadReturn
  \/ ReadForget

SpecFilter == InitFilter /\ [][NextFilter]_vars

\* C8: with a service in the request, Read returns the snapshots of its
\* source, in source order, whose name equals the filter name if that is not
\* empty and whose version equals the filter version if that is not empty;
\* filter {svcA, v2} over svcA@v1 and svcA@v2 returns the v2 entries only.
C8_FilterByService ==
  (rdPc = "done" /\ rdReq.hasService) =>
    LET Keep(snap) == /\ (rdReq.name = "" \/ snap.name = rdReq.name)
                      /\ (rdReq.version = "" \/ snap.version = rdReq.version)
    IN  /\ rdAll = snapshots
        /\ rdRsp = SelectSeq(rdAll, Keep)
        /\ (rdReq.name = "svcA" /\ rdReq.version = "v2") =>
             \A i \in DOMAIN rdRsp : rdRsp[i].version = "v2"

\* filter {svcA, v2} over a batch with svcA@v1 and svcA@v2 has returned the
\* one v2 snapshot
C8_Witness ==
  /\ rdPc = "done" /\ rdReq.hasService /\ ~rdReq.past
  /\ rdReq.name = "svcA" /\ rdReq.version = "v2"
  /\ \E i, j \in DOMAIN snapshots :
        /\ snapshots[i].name = "svcA" /\ snapshots[i].version = "v1"
        /\ snapshots[j].name = "svcA" /\ snapshots[j].version = "v2"
  /\ Len(rdRsp) = 1 /\ rdRsp[1].version = "v2"

\* -------------------------------------------------------- the store handler
\* mutant: get does not take the lock
StoreCanLockAlways(holder) == TRUE

\* s.Lock() returns when no request holds the lock
StoreCanLock(holder) == holder = 0

\* the key of s.Stores: namespace+":"+prefix
StoreKey(namespace, prefix) == namespace \o ":" \o prefix

\* mutant: only a request without metadata gets the default store
UsesDefaultNoMetadataOnly(md) == ~md.ok

\* get returns s.Default: the context has no metadata, or namespace and
\* prefix are both empty
UsesDefault(md) == ~md.ok \/ (Len(md.namespace) = 0 /\ Len(md.prefix) = 0)

\* a handler begins: st, err := s.get(ctx), which begins with s.Lock()
GetLock(c, op, md) ==
  /\ stReq[c].pc = "idle"
  /\ StoreCanLock(stLock)
  /\ stLock' = c
  /\ stReq' = [stReq EXCEPT ![c] = [pc |-> "locked", op |-> op, md |-> md, st |-> NoStore]]
  /\ UNCHANGED << statsVars, stStores, stNew >>

\* func (s *Store) Read
StoreRead(c, md) == GetLock(c, "Read", md)
\* func (s *Store) Write
StoreWrite(c, md) == GetLock(c, "Write", md)
\* func (s *Store) Delete
StoreDelete(c, md) == GetLock(c, "Delete", md)
\* func (s *Store) List
StoreList(c, md) == GetLock(c, "List", md)

\* get: read the metadata; return s.Default, or the store s.Stores holds
\* under the key (the deferred s.Unlock() runs); otherwise go on to create
GetLookup(c) ==
  /\ stReq[c].pc = "locked"
  /\ LET md == stReq[c].md
         key == StoreKey(md.namespace, md.prefix)
     IN  IF UsesDefault(md)
           THEN /\ stReq' = [stReq EXCEPT ![c].pc = "serving", ![c].st = DefaultStore]
                /\ stLock' = 0
         ELSE IF key \in DOMAIN stStores
           THEN /\ stReq' = [stReq EXCEPT ![c].pc = "serving", ![c].st = stStores[key]]
                /\ stLock' = 0
         ELSE /\ stReq' = [stReq EXCEPT ![c].pc = "create"]
              /\ UNCHANGED stLock
  /\ UNCHANGED << statsVars, stStores, stNew >>

\* get: st := s.New(namespace, prefix); s.Stores[key] = st; return st (the
\* deferred s.Unlock() runs)
GetCreate(c) ==
  /\ stReq[c].pc = "create"
  /\ LET md == stReq[c].md
         pair == << md.namespace, md.prefix >>
         st == NewStore(md.namespace, md.prefix, stNew[pair] + 1)
     IN  /\ stNew' = [stNew EXCEPT ![pair] = @ + 1]
         /\ stStores' = MapPut(stStores, StoreKey(md.namespace, md.prefix), st)
         /\ stReq' = [stReq EXCEPT ![c].pc = "serving", ![c].st = st]
  /\ stLock' = 0
  /\ UNCHANGED statsVars

\* the handler calls st.Read, st.Write, st.Delete or st.List on the store
\* get returned, and returns
Serve(c) ==
  /\ stReq[c].pc = "serving"
  /\ stReq' = [stReq EXCEPT ![c] = IdleRequest]
  /\ UNCHANGED << statsVars, stLock, stStores, stNew >>

\* the store handler with MaxClients concurrent requests
NextStore ==
  \/ \E c \in Clients, md \in Contexts : StoreRead(c, md)
  \/ \E c \in Clients, md \in Contexts : StoreWrite(c, md)
  \/ \E c \in Clients, md \in Contexts : StoreDelete(c, md)
  \/ \E c \in Clients, md \in Contexts : StoreList(c, md)
  \/ \E c \in Clients : GetLookup(c)
  \/ \E c \in Clients : GetCreate(c)
  \/ \E c \in Clients : Serve(c)

SpecStore == InitCalls /\ [][NextStore]_vars

\* the requests that get has returned a store to
Serving == {c \in Clients : stReq[c].pc = "serving"}

\* the key get looks the request of c up under
KeyOf(c) == StoreKey(stReq[c].md.namespace, stReq[c].md.prefix)

\* C24: under any interleaving of concurrent Read, Write, Delete and List
\* requests, s.New is called at most once for a (namespace, prefix) pair with
\* a non-empty component and never for the empty pair; an entry of s.Stores,
\* once made, stays as it is, and a request whose key has an entry is served
\* by the store of that entry, so every later request with the pair gets the
\* same store; a request without metadata or with namespace and prefix both
\* empty is served by s.Default, and its get leaves s.Stores as it was.
C24_NewOncePerPair ==
  /\ [](\A p \in StorePairs :
          stNew[p] <= 1 /\ (p = << "", "" >> => stNew[p] = 0))
  /\ [](\A c \in Serving :
          IF UsesDefault(stReq[c].md)
            THEN stReq[c].st = DefaultStore
            ELSE /\ KeyOf(c) \in DOMAIN stStores
                 /\ stReq[c].st = stStores[KeyOf(c)]
                 /\ ~stReq[c].st.default)
  /\ [][ \A k \in DOMAIN stStores :
           k \in DOMAIN stStores' /\ stStores'[k] = stStores[k] ]_vars
  /\ [][ \A c \in Clients :
           (/\ stReq[c].pc = "locked" /\ stReq'[c].pc # "locked"
            /\ (~stReq[c].md.ok \/
                  (stReq[c].md.namespace = "" /\ stReq[c].md.prefix = "")))
           => /\ stReq'[c].pc = "serving"
              /\ stStores' = stStores /\ stNew' = stNew ]_vars
  /\ [][ \A c \in Clients :
           (stReq[c].pc = "locked" /\ stReq'[c].pc = "serving"
            /\ KeyOf(c) \in DOMAIN stStores /\ stReq[c].md.ok
            /\ (stReq[c].md.namespace # "" \/ stReq[c].md.prefix # ""))
           => stReq'[c].st = stStores[KeyOf(c)] /\ stNew' = stNew ]_vars

\* two requests with the pair ("a", ":") are being served at the same time by
\* the one store that was created for it, and s.Stores has that one entry
C24_Witness ==
  /\ stNew[<< "a", ":" >>] = 1
  /\ DOMAIN stStores = {"a::"}
  /\ \E c, d \in Serving :
       /\ c # d
       /\ stReq[c].md = Metadata("a", ":") /\ stReq[d].md = Metadata("a", ":")
       /\ stReq[c].op = "Write" /\ stReq[d].op = "Read"
       /\ stReq[c].st = NewStore("a", ":", 1) /\ stReq[d].st = stReq[c].st

\* C25: requests with different (namespace, prefix) pairs are never served
\* by the same created store: a store that s.New created serves only requests
\* that carry the pair it was created for, also when a namespace or a prefix
\* contains ':', and requests with two different pairs that are served at the
\* same time have two different stores.
C25_DifferentPairsDifferentStores ==
  /\ \A c \in Serving :
       ~stReq[c].st.default =>
          /\ stReq[c].st.namespace = stReq[c].md.namespace
          /\ stReq[c].st.prefix = stReq[c].md.prefix
  /\ \A c, d \in Serving :
       (/\ ~stReq[c].st.default /\ ~stReq[d].st.default
        /\ << stReq[c].md.namespace, stReq[c].md.prefix >> #
             << stReq[d].md.namespace, stReq[d].md.prefix >>)
       => stReq[c].st # stReq[d].st

====
